---- MODULE Spec2Model ----
(***************************************************************************)
(* Retrieval pipeline of "TASK 3 - RAG Knowledge Base/main.py":            *)
(* chunk_text, load_text_files, build_index, load_index, query_index and   *)
(* safe_detect_lang, with the two persisted artifacts (INDEX_FILE and      *)
(* META_FILE) as shared state between rebuilds and a query.                *)
(*                                                                         *)
(* A text is a sequence of one-character strings.  A vector is a pair of   *)
(* integers; a unit vector has length UNIT, so an inner product of two     *)
(* unit vectors is a score in units of 1/(UNIT*UNIT).                      *)
(***************************************************************************)
EXTENDS Integers, Sequences, FiniteSets

(***************************************************************************)
(* Bounds of the model.                                                    *)
(***************************************************************************)
MaxTextLen == 5      \* characters of a text handed to chunk_text directly
MaxChunkSize == 3    \* chunk_size and overlap handed to chunk_text directly
MaxBuilds == 2       \* rebuilds in one behaviour
MaxK == 2            \* largest k of a query

(***************************************************************************)
(* Program constants.                                                      *)
(***************************************************************************)
BUILD_CHUNK_SIZE == 300
BUILD_OVERLAP == 50
DISPLAY_LEN == 600

Min(a, b) == IF a < b THEN a ELSE b
Max(a, b) == IF a > b THEN a ELSE b

(***************************************************************************)
(* str.split() and " ".join()                                              *)
(***************************************************************************)
Whitespace == {" ", "\n"}
Chars == {"a", "b"} \cup Whitespace

TokenStart(text, p) ==
    /\ text[p] \notin Whitespace
    /\ (p = 1 \/ text[p - 1] \in Whitespace)

TokenEnd(text, p) ==
    /\ text[p] \notin Whitespace
    /\ (p = Len(text) \/ text[p + 1] \in Whitespace)

\* The positions lo..hi of text where a token starts (kind "start") or
\* ends (kind "end"), in increasing order; halving keeps the recursion
\* shallow on long texts.
RECURSIVE Marks(_, _, _, _)
Marks(text, kind, lo, hi) ==
    IF lo > hi THEN <<>>
    ELSE IF lo = hi
         THEN IF (kind = "start" /\ TokenStart(text, lo))
                   \/ (kind = "end" /\ TokenEnd(text, lo))
              THEN <<lo>> ELSE <<>>
    ELSE Marks(text, kind, lo, (lo + hi) \div 2)
         \o Marks(text, kind, (lo + hi) \div 2 + 1, hi)

\* text.split(): the maximal runs of non-whitespace characters, in order.
Split(text) ==
    LET starts == Marks(text, "start", 1, Len(text))
        ends == Marks(text, "end", 1, Len(text))
    IN  [t \in 1..Len(starts) |-> SubSeq(text, starts[t], ends[t])]

\* " ".join(tokens[lo..hi])
RECURSIVE JoinRange(_, _, _)
JoinRange(tokens, lo, hi) ==
    IF lo > hi THEN <<>>
    ELSE IF lo = hi THEN tokens[lo]
    ELSE JoinRange(tokens, lo, (lo + hi) \div 2) \o <<" ">>
         \o JoinRange(tokens, (lo + hi) \div 2 + 1, hi)

Join(tokens) == JoinRange(tokens, 1, Len(tokens))

\* seq[lo:hi] of Python, lo and hi 0-based and possibly negative.
PyIndex(n, x) == IF x < 0 THEN Max(n + x, 0) ELSE Min(x, n)
PySlice(seq, lo, hi) ==
    SubSeq(seq, PyIndex(Len(seq), lo) + 1, PyIndex(Len(seq), hi))

(***************************************************************************)
(* chunk_text                                                              *)
(***************************************************************************)
\* The window of one iteration: tokens[i : i + chunk_size], joined.
ChunkWindow(tokens, i, chunk_size) == Join(PySlice(tokens, i, i + chunk_size))

\* i += chunk_size - overlap
ChunkAdvance_IgnoresOverlap(i, chunk_size, overlap) == i + chunk_size
ChunkAdvance(i, chunk_size, overlap) == i + chunk_size - overlap

\* The while loop, run to completion (used by build_index, whose
\* chunk_size and overlap are fixed and make it terminate).
RECURSIVE ChunkLoop(_, _, _, _, _)
ChunkLoop(tokens, chunk_size, overlap, i, chunks) ==
    IF i < Len(tokens)
    THEN ChunkLoop(tokens, chunk_size, overlap,
                   ChunkAdvance(i, chunk_size, overlap),
                   Append(chunks, ChunkWindow(tokens, i, chunk_size)))
    ELSE chunks

chunk_text(text, chunk_size, overlap) ==
    ChunkLoop(Split(text), chunk_size, overlap, 0, <<>>)

(***************************************************************************)
(* The docs directory.  A directory listing is a sequence of distinct file *)
(* names, in the order glob returns them; NoDir is a missing directory.    *)
(***************************************************************************)
FileNames == {"a.txt", "b.md", "c.pdf", "d.txt"}

Extension(name) ==
    CASE name = "a.txt" -> "txt"
      [] name = "b.md"  -> "md"
      [] name = "c.pdf" -> "pdf"
      [] name = "d.txt" -> "txt"

\* n copies of word, sep between them
RECURSIVE Repeat(_, _, _)
Repeat(word, sep, n) ==
    IF n = 0 THEN <<>>
    ELSE IF n = 1 THEN word
    ELSE Repeat(word, sep, n \div 2) \o sep \o Repeat(word, sep, n - n \div 2)

\* a.txt: two tokens.  b.md: 251 two-character tokens, so two chunks, the
\* first longer than the display length.  d.txt: whitespace only.
FileText(name) ==
    CASE name = "a.txt" -> <<"h", "e", "l", "l", "o", " ", "w", "o", "r", "l", "d">>
      [] name = "b.md"  -> Repeat(<<"a", "b">>, <<"\n">>, 251)
      [] name = "c.pdf" -> <<"a", "b">>
      [] name = "d.txt" -> <<" ", "\n", " ">>

NoDir == [exists |-> FALSE, files |-> <<>>]
Dir(listing) == [exists |-> TRUE, files |-> listing]

\* The directories a rebuild is run on: one with no file that yields a
\* chunk, one with a single text file, and one with three files that glob
\* hands out in another order than load_text_files reads them.
Listings == { <<"c.pdf", "d.txt">>, <<"a.txt">>, <<"b.md", "c.pdf", "a.txt">> }

DocDirs == {Dir(l) : l \in Listings} \cup {NoDir}

\* glob.glob(os.path.join(doc_dir, "*." ext)), in listing order
RECURSIVE Glob(_, _, _, _)
Glob(listing, ext, p, acc) ==
    IF p > Len(listing) THEN acc
    ELSE Glob(listing, ext, p + 1,
              IF Extension(listing[p]) = ext
              THEN Append(acc, <<"docs", listing[p]>>)
              ELSE acc)

Basename(path) == path[Len(path)]

\* The inner loop of load_text_files over the paths of one extension.
RECURSIVE ReadFiles(_, _, _)
ReadFiles(paths, p, files) ==
    IF p > Len(paths) THEN files
    ELSE ReadFiles(paths, p + 1,
                   Append(files, [path |-> paths[p],
                                  text |-> FileText(Basename(paths[p]))]))

load_text_files(listing) ==
    ReadFiles(Glob(listing, "md", 1, <<>>), 1,
              ReadFiles(Glob(listing, "txt", 1, <<>>), 1, <<>>))

(***************************************************************************)
(* The embedding provider and the vector index engine.                     *)
(***************************************************************************)
UNIT == 5

Alphabet == <<" ", "\n", "a", "b", "d", "e", "h", "i", "l", "o", "r", "w", "1">>

CharCode(c) == CHOOSE n \in 1..Len(Alphabet) : Alphabet[n] = c

RECURSIVE Checksum(_, _, _)
Checksum(s, lo, hi) ==
    IF lo > hi THEN 0
    ELSE IF lo = hi THEN CharCode(s[lo])
    ELSE Checksum(s, lo, (lo + hi) \div 2) + Checksum(s, (lo + hi) \div 2 + 1, hi)

EmbedTable ==
    << <<4, 3>>, <<6, 8>>, <<0, 10>>, <<-8, 6>>, <<10, 0>>, <<-3, -4>> >>

\* model.encode(text): a vector of dimension 2, not normalized
Embed(s) == EmbedTable[(Checksum(s, 1, Len(s)) % Len(EmbedTable)) + 1]

ISqrt(n) == CHOOSE r \in 0..n : r * r <= n /\ n < (r + 1) * (r + 1)

Norm(v) == ISqrt(v[1] * v[1] + v[2] * v[2])

\* faiss.normalize_L2 on one row; a zero row is left as it is
NormalizeL2(v) ==
    IF Norm(v) = 0 THEN v
    ELSE <<(v[1] * UNIT) \div Norm(v), (v[2] * UNIT) \div Norm(v)>>

InnerProduct(u, v) == u[1] * v[1] + u[2] * v[2]

\* The score faiss reports beside the ordinal -1 of "no match".
NoMatchScore == 0 - (UNIT * UNIT) - 1

\* The orders in which a flat inner-product index may hand out its k best
\* entries of S: best first, equal scores in any order.
RECURSIVE BestFirst(_, _, _)
BestFirst(scores, S, k) ==
    IF k = 0 \/ S = {} THEN {<<>>}
    ELSE UNION {
           {<<i>> \o t : t \in BestFirst(scores, S \ {i}, k - 1)} :
             i \in {j \in S : \A m \in S : scores[m] <= scores[j]} }

\* index.search(q, k): k (score, ordinal) pairs, ordinals 0-based, padded
\* with (NoMatchScore, -1) when the index holds fewer than k vectors.
IndexSearch(vecs, q, k) ==
    LET scores == [i \in 1..Len(vecs) |-> InnerProduct(vecs[i], q)]
    IN  { [j \in 1..k |->
             IF j <= Len(order)
             THEN [score |-> scores[order[j]], idx |-> order[j] - 1]
             ELSE [score |-> NoMatchScore, idx |-> -1]] :
          order \in BestFirst(scores, 1..Len(vecs), k) }

(***************************************************************************)
(* build_index                                                             *)
(***************************************************************************)
\* lines 71-75
MetaEntry(doc, idx, chunk) ==
    [source |-> Basename(doc.path), chunk_idx |-> idx,
     text |-> PySlice(chunk, 0, DISPLAY_LEN)]

\* lines 68-75: for idx, chunk in enumerate(chunks)
RECURSIVE ChunkEntries(_, _, _, _)
ChunkEntries(doc, chunks, idx, acc) ==
    IF idx >= Len(chunks) THEN acc
    ELSE ChunkEntries(doc, chunks, idx + 1,
            [embeddings |-> Append(acc.embeddings, Embed(chunks[idx + 1])),
             meta |-> Append(acc.meta, MetaEntry(doc, idx, chunks[idx + 1]))])

\* lines 66-75: for doc in docs
RECURSIVE DocEntries(_, _, _)
DocEntries(docs, d, acc) ==
    IF d > Len(docs) THEN acc
    ELSE DocEntries(docs, d + 1,
            ChunkEntries(docs[d],
                         chunk_text(docs[d].text, BUILD_CHUNK_SIZE, BUILD_OVERLAP),
                         0, acc))

\* lines 62-75: meta and embeddings of a directory that exists
BuildEntries(listing) ==
    DocEntries(load_text_files(listing), 1, [embeddings |-> <<>>, meta |-> <<>>])

\* Each listing is read and embedded the same way at every rebuild.
EntriesOf == [l \in Listings |-> BuildEntries(l)]

\* lines 60-61 and 77-78: the exception build_index raises, or "none"
BuildRaises_NoEmptyCheck(dir, embeddings) ==
    IF ~dir.exists THEN "FileNotFoundError" ELSE "none"
BuildRaises(dir, embeddings) ==
    IF ~dir.exists THEN "FileNotFoundError"
    ELSE IF embeddings = <<>> THEN "ValueError"
    ELSE "none"

\* lines 80-84: the rows stacked, normalized and added to a new index
BuildVectors(embeddings) ==
    [i \in 1..Len(embeddings) |-> NormalizeL2(embeddings[i])]

\* lines 63-84: the locals meta and index of a rebuild that found dir and
\* did not raise
MetaOf(dir) == EntriesOf[dir.files].meta
IndexOf(dir) == BuildVectors(EntriesOf[dir.files].embeddings)

\* A file that does not exist, and a file that rebuild number gen wrote in
\* full.
NoFile == [exists |-> FALSE, whole |-> FALSE, gen |-> 0, data |-> <<>>]
File(gen, data) == [exists |-> TRUE, whole |-> TRUE, gen |-> gen, data |-> data]

\* line 87: open(META_FILE, "wb") creates the file or cuts it to no bytes
\* at once; it holds no pickle until the dump of line 88 is flushed.
Truncated(gen) == [exists |-> TRUE, whole |-> FALSE, gen |-> gen, data |-> <<>>]

\* The rebuilds that can be running at once: two requests to /rebuild, or
\* two runs of --rebuild.
Builders == {"A", "B"}

\* How a rebuild ended ("ok" at line 90, the exception raised at line 61 or
\* 78, or "killed"), its number and the directory it found.
NoEnd == [how |-> "none", gen |-> 0, dir |-> NoDir]
Ended(how, gen, dir) == [how |-> how, gen |-> gen, dir |-> dir]

(***************************************************************************)
(* load_index and query_index                                              *)
(***************************************************************************)
Queries == { <<"h", "i">> }

DetectOutcomes == {"en", "LangDetectException"}

\* line 94
IndexMissing(ifile, mfile) == ~ifile.exists \/ ~mfile.exists

\* line 110: the hits that are not skipped
KeepHit(hit) == ~(hit.idx < 0)

\* meta[idx] of Python raises IndexError outside -len .. len-1
InRange(meta, idx) == -Len(meta) <= idx /\ idx < Len(meta)
PyGet(meta, idx) == IF idx < 0 THEN meta[Len(meta) + idx + 1] ELSE meta[idx + 1]

\* lines 108-117: the loop over zip(D[0], I[0])
RECURSIVE ResultsLoop(_, _, _, _)
ResultsLoop(hits, meta, p, results) ==
    IF p > Len(hits) THEN [raised |-> "none", results |-> results]
    ELSE IF ~KeepHit(hits[p]) THEN ResultsLoop(hits, meta, p + 1, results)
    ELSE IF ~InRange(meta, hits[p].idx)
         THEN [raised |-> "IndexError", results |-> results]
    ELSE ResultsLoop(hits, meta, p + 1,
            Append(results,
                   [score |-> hits[p].score,
                    source |-> PyGet(meta, hits[p].idx).source,
                    chunk_idx |-> PyGet(meta, hits[p].idx).chunk_idx,
                    text |-> PyGet(meta, hits[p].idx).text]))

\* lines 121-125
safe_detect_lang_Propagates(outcome) == outcome
safe_detect_lang(outcome) ==
    IF outcome = "LangDetectException" THEN "unknown" ELSE outcome

VARIABLES
    indexFile,     \* INDEX_FILE: NoFile or File(gen, rows)
    metaFile,      \* META_FILE: NoFile, Truncated(gen) or File(gen, meta)
    nbuilds,       \* rebuilds started
    built,         \* some rebuild has returned (line 90)
    ended,         \* the rebuild that ended in the last step any rebuild
                   \* took: Ended(how, gen, dir), or NoEnd
    b_pc,          \* build_index, per builder: "idle" (no rebuild runs),
                   \* "write_index", "open_meta", "dump_meta", "return"
    b_gen,         \* while it runs: the number of the rebuild
    b_dir,         \* while it runs: the docs directory the rebuild found;
                   \* its locals index and meta are IndexOf and MetaOf of it
    q_pc,          \* query_index: "idle", "load_check", "read_index", "read_meta", "search", "detect", "done"
    q_query, q_k,  \* its arguments
    q_index,       \* index returned by load_index
    q_meta,        \* meta returned by load_index
    q_hits,        \* zip(D[0], I[0])
    q_results,     \* results
    q_lang,        \* "lang" of the response
    q_detect,      \* what langdetect.detect did
    q_outcome,     \* "none", "ok" or the exception raised
    c_pc,          \* chunk_text called on its own: "call", "loop", "done"
    c_text, c_chunk_size, c_overlap,    \* its arguments
    c_tokens, c_i, c_chunks             \* its locals

cvars == <<c_pc, c_text, c_chunk_size, c_overlap, c_tokens, c_i, c_chunks>>
bvars == <<nbuilds, built, ended, b_pc, b_gen, b_dir>>
qvars == <<q_pc, q_query, q_k, q_index, q_meta, q_hits, q_results,
           q_lang, q_detect, q_outcome>>
fvars == <<indexFile, metaFile>>
vars == <<fvars, bvars, qvars, cvars>>

RECURSIVE TextsOfLen(_)
TextsOfLen(n) ==
    IF n = 0 THEN {<<>>}
    ELSE {Append(t, c) : t \in TextsOfLen(n - 1), c \in Chars}

Texts == UNION {TextsOfLen(n) : n \in 0..MaxTextLen}

\* More iterations than any terminating call over these texts makes.
IterCap == MaxTextLen + 1

\* No file written, no rebuild and no query made.
StoreInit ==
    /\ indexFile = NoFile
    /\ metaFile = NoFile
    /\ nbuilds = 0
    /\ built = FALSE
    /\ ended = NoEnd
    /\ b_pc = [p \in Builders |-> "idle"]
    /\ b_gen = [p \in Builders |-> 0]
    /\ b_dir = [p \in Builders |-> NoDir]
    /\ q_pc = "idle"
    /\ q_query = <<>>
    /\ q_k = 1
    /\ q_index = NoFile
    /\ q_meta = NoFile
    /\ q_hits = <<>>
    /\ q_results = <<>>
    /\ q_lang = "none"
    /\ q_detect = "none"
    /\ q_outcome = "none"

ChunkInit ==
    /\ StoreInit
    /\ c_pc = "call"
    /\ c_text \in Texts
    /\ c_chunk_size \in 1..MaxChunkSize
    /\ c_overlap \in 0..MaxChunkSize
    /\ c_tokens = <<>>
    /\ c_i = 0
    /\ c_chunks = <<>>

\* lines 48-50
ChunkEnter ==
    /\ c_pc = "call"
    /\ c_tokens' = Split(c_text)
    /\ c_chunks' = <<>>
    /\ c_i' = 0
    /\ c_pc' = "loop"
    /\ UNCHANGED <<c_text, c_chunk_size, c_overlap>>
    /\ UNCHANGED <<fvars, bvars, qvars>>

\* lines 51-54, one iteration
ChunkIter ==
    /\ c_pc = "loop"
    /\ c_i < Len(c_tokens)
    /\ Len(c_chunks) < IterCap
    /\ c_chunks' = Append(c_chunks, ChunkWindow(c_tokens, c_i, c_chunk_size))
    /\ c_i' = ChunkAdvance(c_i, c_chunk_size, c_overlap)
    /\ UNCHANGED <<c_pc, c_text, c_chunk_size, c_overlap, c_tokens>>
    /\ UNCHANGED <<fvars, bvars, qvars>>

\* line 51 false, line 55
ChunkReturn ==
    /\ c_pc = "loop"
    /\ ~(c_i < Len(c_tokens))
    /\ c_pc' = "done"
    /\ UNCHANGED <<c_text, c_chunk_size, c_overlap, c_tokens, c_i, c_chunks>>
    /\ UNCHANGED <<fvars, bvars, qvars>>

ChunkNext == ChunkEnter \/ ChunkIter \/ ChunkReturn

SpecChunk == ChunkInit /\ [][ChunkNext]_vars

(***************************************************************************)
(* The index store: rebuilds and a query, each a thread of the server or a *)
(* run of the command line, over the same two files.  Nothing in the code  *)
(* takes a lock.                                                           *)
(***************************************************************************)
Init ==
    /\ StoreInit
    /\ c_pc = "unused"
    /\ c_text = <<>>
    /\ c_chunk_size = 1
    /\ c_overlap = 0
    /\ c_tokens = <<>>
    /\ c_i = 0
    /\ c_chunks = <<>>

Running(p) == b_pc[p] \in {"write_index", "open_meta", "dump_meta", "return"}

\* build_index, lines 58-84: everything before the first write.  dir is
\* the docs directory as this rebuild finds it.
BuildStart(p, dir) ==
    /\ ~Running(p)
    /\ nbuilds < MaxBuilds
    /\ nbuilds' = nbuilds + 1
    /\ LET entries == IF ~dir.exists THEN [embeddings |-> <<>>, meta |-> <<>>]
                      ELSE EntriesOf[dir.files]
           raised == BuildRaises(dir, entries.embeddings)
       IN  IF raised # "none"
           THEN /\ ended' = Ended(raised, nbuilds + 1, dir)
                /\ UNCHANGED <<b_pc, b_gen, b_dir>>
           ELSE /\ ended' = NoEnd
                /\ b_pc' = [b_pc EXCEPT ![p] = "write_index"]
                /\ b_gen' = [b_gen EXCEPT ![p] = nbuilds + 1]
                /\ b_dir' = [b_dir EXCEPT ![p] = dir]
    /\ UNCHANGED <<built, fvars, qvars, cvars>>

\* line 86: faiss.write_index replaces the file
BuildWriteIndex(p) ==
    /\ b_pc[p] = "write_index"
    /\ indexFile' = File(b_gen[p], IndexOf(b_dir[p]))
    /\ b_pc' = [b_pc EXCEPT ![p] = "open_meta"]
    /\ ended' = NoEnd
    /\ UNCHANGED <<metaFile, nbuilds, built, b_gen, b_dir>>
    /\ UNCHANGED <<qvars, cvars>>

\* line 87: open(META_FILE, "wb")
BuildOpenMeta(p) ==
    /\ b_pc[p] = "open_meta"
    /\ metaFile' = Truncated(b_gen[p])
    /\ b_pc' = [b_pc EXCEPT ![p] = "dump_meta"]
    /\ ended' = NoEnd
    /\ UNCHANGED <<indexFile, nbuilds, built, b_gen, b_dir>>
    /\ UNCHANGED <<qvars, cvars>>

\* line 88 and the end of the with block: pickle.dump fills the buffer of
\* the builder's own handle, and the close writes it from the start of the
\* file; the file holds the pickle from here on
BuildDumpMeta(p) ==
    /\ b_pc[p] = "dump_meta"
    /\ metaFile' = File(b_gen[p], MetaOf(b_dir[p]))
    /\ b_pc' = [b_pc EXCEPT ![p] = "return"]
    /\ ended' = NoEnd
    /\ UNCHANGED <<indexFile, nbuilds, built, b_gen, b_dir>>
    /\ UNCHANGED <<qvars, cvars>>

\* The locals of a rebuild end with it.
BuildEnds(p) ==
    /\ b_pc' = [b_pc EXCEPT ![p] = "idle"]
    /\ b_gen' = [b_gen EXCEPT ![p] = 0]
    /\ b_dir' = [b_dir EXCEPT ![p] = NoDir]

\* line 90
BuildReturn(p) ==
    /\ b_pc[p] = "return"
    /\ built' = TRUE
    /\ ended' = Ended("ok", b_gen[p], b_dir[p])
    /\ BuildEnds(p)
    /\ UNCHANGED <<fvars, nbuilds>>
    /\ UNCHANGED <<qvars, cvars>>

\* The rebuilding process dies somewhere in lines 86-90: before a write,
\* between the two, inside the with block before the dump reaches the
\* file, or after the close and before the return.
BuildCrash(p) ==
    /\ Running(p)
    /\ ended' = Ended("killed", b_gen[p], b_dir[p])
    /\ BuildEnds(p)
    /\ UNCHANGED <<fvars, nbuilds, built>>
    /\ UNCHANGED <<qvars, cvars>>

\* query_index, lines 102-104, up to the call of load_index
QueryStart(query, k) ==
    /\ q_pc \in {"idle", "done"}
    /\ q_query' = query
    /\ q_k' = k
    /\ q_pc' = "load_check"
    /\ q_index' = NoFile
    /\ q_meta' = NoFile
    /\ q_hits' = <<>>
    /\ q_results' = <<>>
    /\ q_lang' = "none"
    /\ q_detect' = "none"
    /\ q_outcome' = "none"
    /\ UNCHANGED <<fvars, bvars, cvars>>

\* load_index, lines 94-95.  No file is ever removed, so the two
\* os.path.exists calls see what one look at both files sees.
LoadCheck ==
    /\ q_pc = "load_check"
    /\ IF IndexMissing(indexFile, metaFile)
       THEN q_pc' = "done" /\ q_outcome' = "FileNotFoundError"
       ELSE q_pc' = "read_index" /\ q_outcome' = "none"
    /\ UNCHANGED <<q_query, q_k, q_index, q_meta, q_hits, q_results,
                   q_lang, q_detect>>
    /\ UNCHANGED <<fvars, bvars, cvars>>

\* load_index, line 96
LoadReadIndex ==
    /\ q_pc = "read_index"
    /\ IF ~indexFile.exists
       THEN q_pc' = "done" /\ q_outcome' = "RuntimeError" /\ q_index' = q_index
       ELSE q_pc' = "read_meta" /\ q_outcome' = "none" /\ q_index' = indexFile
    /\ UNCHANGED <<q_query, q_k, q_meta, q_hits, q_results,
                   q_lang, q_detect>>
    /\ UNCHANGED <<fvars, bvars, cvars>>

\* load_index, lines 97-99: pickle.load raises EOFError on a file that
\* holds no pickle
LoadReadMeta ==
    /\ q_pc = "read_meta"
    /\ IF ~metaFile.exists
       THEN q_pc' = "done" /\ q_outcome' = "FileNotFoundError" /\ q_meta' = q_meta
       ELSE IF ~metaFile.whole
       THEN q_pc' = "done" /\ q_outcome' = "EOFError" /\ q_meta' = q_meta
       ELSE q_pc' = "search" /\ q_outcome' = "none" /\ q_meta' = metaFile
    /\ UNCHANGED <<q_query, q_k, q_index, q_hits, q_results,
                   q_lang, q_detect>>
    /\ UNCHANGED <<fvars, bvars, cvars>>

\* query_index, lines 105-117
QuerySearch ==
    /\ q_pc = "search"
    /\ \E hits \in IndexSearch(q_index.data, NormalizeL2(Embed(q_query)), q_k) :
         LET loop == ResultsLoop(hits, q_meta.data, 1, <<>>)
         IN  /\ q_hits' = hits
             /\ q_results' = loop.results
             /\ IF loop.raised # "none"
                THEN q_pc' = "done" /\ q_outcome' = loop.raised
                ELSE q_pc' = "detect" /\ q_outcome' = "none"
    /\ UNCHANGED <<q_query, q_k, q_index, q_meta, q_lang, q_detect>>
    /\ UNCHANGED <<fvars, bvars, cvars>>

\* query_index, line 118, with safe_detect_lang, lines 121-125.  outcome is
\* what langdetect.detect does on the query.
QueryReturn(outcome) ==
    /\ q_pc = "detect"
    /\ q_detect' = outcome
    /\ q_lang' = safe_detect_lang(outcome)
    /\ q_pc' = "done"
    /\ q_outcome' = IF safe_detect_lang(outcome) = "LangDetectException"
                    THEN "LangDetectException" ELSE "ok"
    /\ UNCHANGED <<q_query, q_k, q_index, q_meta, q_hits, q_results>>
    /\ UNCHANGED <<fvars, bvars, cvars>>

Build ==
    \/ \E p \in Builders, dir \in DocDirs : BuildStart(p, dir)
    \/ \E p \in Builders : BuildWriteIndex(p)
    \/ \E p \in Builders : BuildOpenMeta(p)
    \/ \E p \in Builders : BuildDumpMeta(p)
    \/ \E p \in Builders : BuildReturn(p)

Query ==
    \/ \E query \in Queries, k \in 1..MaxK : QueryStart(query, k)
    \/ LoadCheck
    \/ LoadReadIndex
    \/ LoadReadMeta
    \/ QuerySearch
    \/ \E outcome \in DetectOutcomes : QueryReturn(outcome)

\* The server's /rebuild and /query handlers run on separate threads and
\* take no lock.
ServeNext == Build \/ Query

Next == Build \/ (\E p \in Builders : BuildCrash(p)) \/ Query

SpecServe == Init /\ [][ServeNext]_vars

Spec == Init /\ [][Next]_vars

(***************************************************************************)
(* Properties of chunk_text, checked under SpecChunk.                      *)
(***************************************************************************)
CeilDiv(n, d) == (n + d - 1) \div d

NonWhitespace(text) == SelectSeq(text, LAMBDA c : c \notin Whitespace)

RECURSIVE Concat(_, _)
Concat(seqs, n) == IF n = 0 THEN <<>> ELSE Concat(seqs, n - 1) \o seqs[n]

ValidChunking == 0 <= c_overlap /\ c_overlap < c_chunk_size

\* C1: a call of chunk_text with overlap >= chunk_size on a text of at
\* least one token is rejected before it emits a window, so it never emits
\* more windows than the text has tokens (as every terminating call does)
\* and never keeps looping.
C1_BadOverlapRejected ==
    (c_pc # "call" /\ c_overlap >= c_chunk_size /\ Len(c_tokens) >= 1)
        => Len(c_chunks) <= Len(c_tokens)

\* C2: with 0 <= overlap < chunk_size, chunk_text on a text of N
\* whitespace-delimited tokens terminates (each iteration moves the start
\* forward by chunk_size - overlap and the loop is never cut short) and
\* returns exactly ceil(N / (chunk_size - overlap)) chunks; chunk j is the
\* non-empty window of tokens starting at token j * (chunk_size - overlap),
\* of length min(chunk_size, N - start), joined by single spaces, so the
\* chunks are in text order and every token lies in some chunk.
C2_ChunkWindows ==
    LET N == Len(c_tokens)
        step == c_chunk_size - c_overlap
        start(j) == j * step
    IN  (ValidChunking /\ c_pc # "call") =>
          /\ \A t \in 1..N : c_tokens[t] # <<>> /\ NonWhitespace(c_tokens[t]) = c_tokens[t]
          /\ Concat(c_tokens, N) = NonWhitespace(c_text)
          /\ c_pc = "loop" =>
               /\ c_i = start(Len(c_chunks))
               /\ Len(c_chunks) <= CeilDiv(N, step)
               /\ (c_i < N => Len(c_chunks) < IterCap)
          /\ c_pc = "done" =>
               /\ Len(c_chunks) = CeilDiv(N, step)
               /\ \A j \in 0..(Len(c_chunks) - 1) :
                    /\ start(j) < N
                    /\ c_chunks[j + 1] # <<>>
                    /\ c_chunks[j + 1] =
                         Join(SubSeq(c_tokens, start(j) + 1,
                                     start(j) + Min(c_chunk_size, N - start(j))))
               /\ \A t \in 1..N : \E j \in 0..(Len(c_chunks) - 1) :
                    start(j) < t /\ t <= start(j) + c_chunk_size

\* A call with overlap > 0 that returned several chunks, the last one a
\* partial window.
C2_Witness ==
    /\ c_pc = "done"
    /\ ValidChunking
    /\ c_overlap >= 1
    /\ c_chunk_size >= 2
    /\ Len(c_chunks) >= 2
    /\ (Len(c_chunks) - 1) * (c_chunk_size - c_overlap) + c_chunk_size > Len(c_tokens)

(***************************************************************************)
(* Properties of the index store, checked under Spec; C6, C7 and C9 under   *)
(* SpecServe, where no process dies.                                       *)
(***************************************************************************)
LoadReturned == q_index.exists /\ q_meta.whole

\* A rebuild returned, no rebuild has taken a step since and none is
\* running.
Settled == ended.how = "ok" /\ \A p \in Builders : ~Running(p)

QueryAssembled == q_pc = "detect" \/ (q_pc = "done" /\ q_outcome = "ok")

\* The chunks build_index cuts each file into.
ChunksOf ==
    [f \in FileNames |-> chunk_text(FileText(f), BUILD_CHUNK_SIZE, BUILD_OVERLAP)]

Eligible(listing) ==
    {listing[p] : p \in {r \in 1..Len(listing) : Extension(listing[r]) \in {"txt", "md"}}}

\* Chunk j (from 1) of file f as the two files should hold it.
DisplayTextOf ==
    [f \in FileNames |->
       [j \in 1..Len(ChunksOf[f]) |->
          SubSeq(ChunksOf[f][j], 1, Min(Len(ChunksOf[f][j]), DISPLAY_LEN))]]

StoredRowOf ==
    [f \in FileNames |->
       [j \in 1..Len(ChunksOf[f]) |-> NormalizeL2(Embed(ChunksOf[f][j]))]]

\* C3: a query that ends while no rebuild has ever returned, or while the
\* vector file or the metadata file is missing, ends with the not-found
\* error and no results.
C3_MissingIndexError ==
    (q_pc = "done" /\ (~built \/ ~indexFile.exists \/ ~metaFile.exists))
        => (q_outcome = "FileNotFoundError" /\ q_results = <<>>)

\* C4: load_index never returns an index and a meta of different entry
\* counts (it fails instead).
C4_LoadRejectsCountMismatch ==
    LoadReturned => Len(q_index.data) = Len(q_meta.data)

\* C5: a rebuild that finds no docs directory, or no chunk in it, raises
\* (FileNotFoundError, ValueError) without writing: a rebuild that starts
\* and does not go on to the writes ends at once with one of these errors
\* and leaves both files exactly as they were, and only a rebuild of an
\* existing directory with at least one chunk goes on to the writes.
C5_FailedBuildWritesNothing ==
    /\ [](\A p \in Builders : Running(p)
              => /\ b_dir[p].exists
                 /\ \E f \in Eligible(b_dir[p].files) : Len(ChunksOf[f]) > 0)
    /\ [][(nbuilds' # nbuilds /\ \A p \in Builders : Running(p)' => Running(p))
            => /\ ended'.how \in {"FileNotFoundError", "ValueError"}
               /\ ended'.gen = nbuilds'
               /\ indexFile' = indexFile
               /\ metaFile' = metaFile]_vars

\* A rebuild that failed on an empty corpus after an earlier rebuild had
\* written both files.
C5_Witness ==
    /\ ended.how = "ValueError"
    /\ indexFile.exists
    /\ metaFile.whole
    /\ indexFile.gen < ended.gen
    /\ metaFile.gen < ended.gen

\* C6: a query never loads a vector file written by one rebuild together
\* with a metadata file written by another.
C6_LoadSeesOneBuild ==
    LoadReturned => q_index.gen = q_meta.gen

\* C7: when a rebuild has just returned and no rebuild is running, the two
\* files hold equally many entries; entry i of the vector file is the
\* normalized embedding of the (whole) chunk of a text file that entry i of
\* the metadata names by source and chunk_idx, whose display text it holds;
\* the entries come document by document, and within a document chunk_idx
\* counts 0, 1, 2, ... up to its last chunk.
C7_EntriesAligned ==
    LET rows == indexFile.data
        meta == metaFile.data
        n == Len(meta)
    IN  Settled =>
          /\ Len(rows) = n
          /\ n >= 1
          /\ meta[1].chunk_idx = 0
          /\ \A i \in 1..n :
               /\ meta[i].source \in FileNames
               /\ Extension(meta[i].source) \in {"txt", "md"}
               /\ meta[i].chunk_idx \in 0..(Len(ChunksOf[meta[i].source]) - 1)
               /\ rows[i] = StoredRowOf[meta[i].source][meta[i].chunk_idx + 1]
               /\ meta[i].text = DisplayTextOf[meta[i].source][meta[i].chunk_idx + 1]
          /\ \A i \in 1..(n - 1) :
               \/ /\ meta[i + 1].source = meta[i].source
                  /\ meta[i + 1].chunk_idx = meta[i].chunk_idx + 1
               \/ /\ meta[i + 1].chunk_idx = 0
                  /\ meta[i].chunk_idx = Len(ChunksOf[meta[i].source]) - 1
                  /\ \A j \in 1..i : meta[j].source # meta[i + 1].source

\* C8: a query on a loaded index of n rows ends with results, exactly
\* min(k, n) of them; result j is row I[j] >= 0 of the index with its inner
\* product with the normalized query vector as score and entry I[j] of the
\* loaded metadata; the rows are distinct, no row left out scores higher
\* than one returned, scores do not increase down the list, and the hits
\* beyond min(k, n) are the skipped "no match" placeholders.
C8_TopKResults ==
    LET n == Len(q_index.data)
        m == Min(q_k, n)
        qv == NormalizeL2(Embed(q_query))
        score(i) == InnerProduct(q_index.data[i], qv)
        row(j) == q_hits[j].idx + 1
    IN  /\ (q_pc = "done" /\ LoadReturned) => q_outcome = "ok"
        /\ QueryAssembled =>
             /\ Len(q_results) = m
             /\ Len(q_hits) = q_k
             /\ \A j \in 1..m :
                  /\ row(j) \in 1..n
                  /\ q_results[j].score = score(row(j))
                  /\ q_results[j].score # NoMatchScore
                  /\ q_results[j].source = q_meta.data[row(j)].source
                  /\ q_results[j].chunk_idx = q_meta.data[row(j)].chunk_idx
                  /\ q_results[j].text = q_meta.data[row(j)].text
             /\ \A j1, j2 \in 1..m : j1 < j2 =>
                  /\ row(j1) # row(j2)
                  /\ q_results[j1].score >= q_results[j2].score
             /\ \A i \in 1..n : (\A j \in 1..m : row(j) # i) =>
                  \A j \in 1..m : score(i) <= q_results[j].score
             /\ \A j \in (m + 1)..q_k : q_hits[j].idx < 0

\* C9: when the rebuild that started last has returned, no rebuild has
\* taken a step since and none is running, the two files together hold
\* exactly one entry per chunk of the eligible files this rebuild found,
\* and nothing else, whatever the files held before.
C9_RebuildReplaces ==
    LET rows == indexFile.data
        meta == metaFile.data
        held == {<<meta[i].source, meta[i].chunk_idx, meta[i].text, rows[i]>> :
                   i \in 1..Min(Len(meta), Len(rows))}
        found == UNION {
                   {<<f, j - 1, DisplayTextOf[f][j], StoredRowOf[f][j]>> :
                      j \in 1..Len(ChunksOf[f])} : f \in Eligible(ended.dir.files)}
    IN  (Settled /\ ended.gen = nbuilds) =>
          /\ Len(rows) = Len(meta)
          /\ held = found
          /\ Len(meta) = Cardinality(found)

\* C10: the step that detects the language leaves the assembled results as
\* they are and ends the query successfully; when detection fails, the
\* language of the response is "unknown".
C10_DetectionFailureIsNotFatal ==
    [][(q_pc = "detect" /\ q_pc' = "done")
         => /\ q_results' = q_results
            /\ q_hits' = q_hits
            /\ q_outcome' = "ok"
            /\ (q_detect' = "LangDetectException" => q_lang' = "unknown")
            /\ (q_detect' # "LangDetectException" => q_lang' = q_detect')]_vars

\* A query answered with results although detection failed.
C10_Witness ==
    /\ q_pc = "done"
    /\ q_detect = "LangDetectException"
    /\ q_outcome = "ok"
    /\ q_lang = "unknown"
    /\ Len(q_results) >= 1

====
